---- MODULE Spec2Model ----
(***************************************************************************)
(* Model of the document index of public_docs_server                       *)
(* (src/document_search.go): DocumentIndex with its RWMutex, the scan      *)
(* (scanDocuments, driven by StartIndexing's loop and by ForceRefresh),    *)
(* and the readers SearchDocuments and GetIndexStats.                      *)
(*                                                                         *)
(* Strings are sequences of one-character strings, so that prefix tests    *)
(* and trimming are computed, not assumed.                                 *)
(***************************************************************************)
EXTENDS Naturals, Sequences, FiniteSets

\* ------------------------------------------------------------------ bounds
\* longest query a reader passes to SearchDocuments
MaxLen == 2
\* last value of the clock
MaxTime == 2

\* ----------------------------------------------------------------- strings
Chars == {"a", "b", "A", " "}

IsSpace(c) == c = " "

StringsUpTo(n) == UNION {[1..k -> Chars] : k \in 0..n}

\* every raw query a caller may pass
Queries == StringsUpTo(MaxLen)

RECURSIVE TrimLeft(_)
TrimLeft(s) ==
    IF s = <<>> THEN <<>>
    ELSE IF IsSpace(Head(s)) THEN TrimLeft(Tail(s)) ELSE s

RECURSIVE TrimRight(_)
TrimRight(s) ==
    IF s = <<>> THEN <<>>
    ELSE IF IsSpace(s[Len(s)]) THEN TrimRight(SubSeq(s, 1, Len(s) - 1)) ELSE s

\* mutant of TrimSpace: the query is used as passed
TrimSpaceOmitted(s) == s

\* mutant of TrimSpace: white space is cut at the front only
TrimSpaceLeftOnly(s) == TrimLeft(s)

\* strings.TrimSpace: leading and trailing white space removed
TrimSpace(s) == TrimRight(TrimLeft(s))

\* strings.HasPrefix: byte-wise, case-sensitive
HasPrefix(s, prefix) ==
    /\ Len(s) >= Len(prefix)
    /\ SubSeq(s, 1, Len(prefix)) = prefix

\* -------------------------------------------------------------- filesystem
\* The entries that may exist under the root, in the lexical order in which
\* filepath.Walk visits them (" " < "A" < "a" < "x" < "y"); parent = 0 is the
\* root itself; size and mtime are what os.FileInfo reports for the entry.
Entries == <<
    [name |-> <<" ", "a">>, parent |-> 0, size |-> 1, mtime |-> 1, dir |-> FALSE, path |-> << <<" ", "a">> >>],
    [name |-> <<"A", "b">>, parent |-> 0, size |-> 2, mtime |-> 1, dir |-> FALSE, path |-> << <<"A", "b">> >>],
    [name |-> <<"x">>,      parent |-> 0, size |-> 0, mtime |-> 1, dir |-> TRUE,  path |-> << <<"x">> >>],
    [name |-> <<"a">>,      parent |-> 3, size |-> 4, mtime |-> 1, dir |-> FALSE, path |-> << <<"x">>, <<"a">> >>],
    [name |-> <<"a", "b">>, parent |-> 3, size |-> 5, mtime |-> 1, dir |-> FALSE, path |-> << <<"x">>, <<"a", "b">> >>],
    [name |-> <<"y">>,      parent |-> 0, size |-> 0, mtime |-> 1, dir |-> TRUE,  path |-> << <<"y">> >>],
    [name |-> <<"a", "b">>, parent |-> 6, size |-> 7, mtime |-> 1, dir |-> FALSE, path |-> << <<"y">>, <<"a", "b">> >> ] >>

NEntries == Len(Entries)

EntryIds == 1..NEntries

\* A tree: the state of the root ("ok", "err": missing or unreadable) and of
\* every entry ("ok", "err": exists but cannot be accessed, "absent").
Tree(root, e1, e2, e3, e4, e5, e6, e7) ==
    [root |-> root, st |-> <<e1, e2, e3, e4, e5, e6, e7>>]

EmptyTree == Tree("ok", "absent", "absent", "absent", "absent", "absent", "absent", "absent")
NoRootTree == Tree("err", "absent", "absent", "absent", "absent", "absent", "absent", "absent")
FullTree == Tree("ok", "ok", "ok", "ok", "ok", "ok", "ok", "ok")
ErrTree == Tree("ok", "ok", "absent", "ok", "err", "ok", "err", "ok")
SmallTree == Tree("ok", "absent", "ok", "ok", "ok", "absent", "absent", "absent")
DupTree == Tree("ok", "absent", "absent", "ok", "absent", "ok", "ok", "ok")

\* history: no walk has finished yet
NoTree == [root |-> "none", st |-> <<>>]

\* the filesystems the model moves between
FsStates == {NoRootTree, DupTree, ErrTree}

\* ------------------------------------------------------------------- state
Loop == "loop"
Forcers == {"f1"}
Writers == {Loop} \cup Forcers
\* the goroutines calling SearchDocuments and those calling GetIndexStats
Searchers == {"r1"}
StatsCallers == {"r2"}
Readers == Searchers \cup StatsCallers
Procs == Writers \cup Readers

NoProc == "none"
NilErr == "nil"
Completed == "completed"

\* the queries the readers of the concurrent specification pass
ConcQueries == {<<"a">>}

VARIABLES
    documents,   \* di.documents: identifier -> sequence of DocumentInfo
    lastScan,    \* di.lastScan (0 is the zero time.Time)
    muWriter,    \* di.mu: the writer that holds or has announced the write lock
    muReaders,   \* di.mu: the readers inside their read section
    pc,          \* position of each goroutine
    walkPos,     \* per writer: the next entry filepath.Walk visits (0 = root)
    walkErr,     \* per writer: the error filepath.Walk returns
    fs,          \* the tree under rootPath
    now,         \* wall clock
    tickerOn,    \* StartIndexing's ticker has been created
    tickC,       \* ticks buffered in ticker.C (capacity 1)
    op,          \* per reader: "search" or "stats"
    query,       \* per reader: the raw query passed to SearchDocuments
    searchRes,   \* per reader: the SearchResult being returned
    statsRes,    \* per reader: the stats map being returned
    installed,   \* history: the map as the last completed scan left it
    histScan,    \* history: di.lastScan as the last completed scan left it
    scannedFs,   \* history: the tree the last finished walk has walked
    calledAfter, \* history: per reader, a scan had returned when its call started
    since,       \* history: per reader in a call, the maps in place since the
                 \* call started: the one at its start and those installed later
    waitFor,     \* history: per writer, the writer whose scan was in flight when
                 \* its call started, Completed once that scan has returned
    callTime     \* history: per writer, the clock when its call started

vars == <<documents, lastScan, muWriter, muReaders, pc, walkPos, walkErr, fs, now,
          tickerOn, tickC, op, query, searchRes, statsRes, installed, histScan,
          scannedFs, calledAfter, since, waitFor, callTime>>

indexVars == <<documents, lastScan>>
readerVars == <<op, query, searchRes, statsRes, calledAfter, since>>
envVars == <<fs, now, tickerOn, tickC>>
walkVars == <<walkPos, walkErr>>
histVars == <<installed, histScan, scannedFs>>

\* NewDocumentIndex: an empty map and the zero time
EmptyDocs == <<>>
ZeroTime == 0

NoSearchRes == [Query |-> <<>>, Results |-> <<>>, Count |-> 0, SearchTime |-> 0]
NoStatsRes == [unique_ids |-> 0, total_files |-> 0, last_scan |-> 0, index_age |-> 0]

\* --------------------------------------------------------------- the scan
RootPath == <<"root">>

\* mutant of DocInfo: the ID is taken from the relative path, not the name
DocInfoPathID(e) ==
    [ID |-> Head(e.path), Path |-> e.path, Name |-> e.name, Size |-> e.size,
     ModTime |-> e.mtime, FullPath |-> <<RootPath>> \o e.path]

\* the DocumentInfo the walk callback builds for a file
DocInfo(e) ==
    [ID |-> e.name, Path |-> e.path, Name |-> e.name, Size |-> e.size,
     ModTime |-> e.mtime, FullPath |-> <<RootPath>> \o e.path]

\* di.documents[docName] = append(di.documents[docName], docInfo)
AppendDoc(docs, docName, docInfo) ==
    [k \in DOMAIN docs \cup {docName} |->
        IF k = docName
        THEN (IF k \in DOMAIN docs THEN docs[k] ELSE <<>>) \o <<docInfo>>
        ELSE docs[k]]

\* mutant of WalkFnDocs: directories are recorded as well
WalkFnDocsWithDirs(docs, e, status) ==
    IF status = "err" THEN docs
    ELSE IF e.name # <<>> THEN AppendDoc(docs, e.name, DocInfo(e))
    ELSE docs

\* The callback of filepath.Walk on one entry: the map afterwards.
\* status "err" is the err != nil branch (logged, walk continues).
WalkFnDocs(docs, e, status) ==
    IF status = "err" THEN docs
    ELSE IF e.dir THEN docs
    ELSE IF e.name # <<>> THEN AppendDoc(docs, e.name, DocInfo(e))
    ELSE docs

\* mutant of WalkFnErr: the callback returns the error it was handed
WalkFnErrReturned(e, status) == IF status = "err" THEN "err" ELSE NilErr

\* The callback's return value: nil on every path.
WalkFnErr(e, status) == NilErr

\* filepath.Walk visits an entry that exists when its directory was readable
Visited(tree, i) ==
    /\ tree.root = "ok"
    /\ tree.st[i] # "absent"
    /\ Entries[i].parent # 0 => tree.st[Entries[i].parent] = "ok"

\* the first entry from i on that filepath.Walk visits, NEntries + 1 when none
RECURSIVE NextVisited(_, _)
NextVisited(tree, i) ==
    IF i > NEntries THEN NEntries + 1
    ELSE IF Visited(tree, i) THEN i ELSE NextVisited(tree, i + 1)

\* One whole walk of an unchanging tree, from entry i on.
RECURSIVE WalkFrom(_, _, _)
WalkFrom(docs, tree, i) ==
    IF i > NEntries THEN docs
    ELSE WalkFrom(IF Visited(tree, i) THEN WalkFnDocs(docs, Entries[i], tree.st[i]) ELSE docs,
                  tree, i + 1)

\* the snapshot a scan of an unchanging tree leaves
ScanOf(tree) == WalkFrom(EmptyDocs, tree, 1)

\* ----------------------------------------------------------- the readers
ToLower(s) == [i \in DOMAIN s |-> IF s[i] = "A" THEN "a" ELSE s[i]]

\* mutant of Matches: the prefix is compared without regard to case
MatchesFold(docID, q) == HasPrefix(ToLower(docID), ToLower(q))

\* mutant of Matches: the identifier must equal the query
MatchesExact(docID, q) == docID = q

\* the test of SearchDocuments' loop: strings.HasPrefix(docID, query)
Matches(docID, q) == HasPrefix(docID, q)

\* the orders in which `range di.documents` may yield the keys in keys
KeyOrders(keys) ==
    {s \in [1..Cardinality(keys) -> keys] : \A i, j \in DOMAIN s : i # j => s[i] # s[j]}

\* results = append(results, docs...) over the keys in the order ord
RECURSIVE AppendGroups(_, _, _)
AppendGroups(docs, q, ord) ==
    IF ord = <<>> THEN <<>>
    ELSE (IF Matches(Head(ord), q) THEN docs[Head(ord)] ELSE <<>>)
         \o AppendGroups(docs, q, Tail(ord))

\* The SearchResults SearchDocuments(raw) may return on the map docs at time t:
\* one per iteration order of the map.
SearchDocumentsResults(docs, raw, t) ==
    LET q == TrimSpace(raw) IN
    IF q = <<>>
    THEN {[Query |-> q, Results |-> <<>>, Count |-> 0, SearchTime |-> t]}
    ELSE {[Query |-> q, Results |-> AppendGroups(docs, q, ord),
           Count |-> Len(AppendGroups(docs, q, ord)), SearchTime |-> t] :
            ord \in KeyOrders(DOMAIN docs)}

\* totalDocs += len(docs) over the groups of keys
RECURSIVE TotalDocs(_, _)
TotalDocs(docs, keys) ==
    IF keys = {} THEN 0
    ELSE LET k == CHOOSE x \in keys : TRUE IN Len(docs[k]) + TotalDocs(docs, keys \ {k})

\* the map GetIndexStats returns on (docs, last) at time t
GetIndexStatsResult(docs, last, t) ==
    [unique_ids |-> Cardinality(DOMAIN docs),
     total_files |-> TotalDocs(docs, DOMAIN docs),
     last_scan |-> last,
     index_age |-> t - last]

\* ------------------------------------------------------------------- Init
\* mutant of Init: the constructor hands out a map that already holds the
\* files of the tree
InitPreloaded ==
    /\ fs \in FsStates
    /\ documents = ScanOf(fs)
    /\ lastScan = ZeroTime
    /\ muWriter = NoProc
    /\ muReaders = {}
    /\ pc = [p \in Procs |-> IF p = Loop THEN "off" ELSE "idle"]
    /\ walkPos = [p \in Writers |-> 0]
    /\ walkErr = [p \in Writers |-> NilErr]
    /\ now = 1
    /\ tickerOn = FALSE
    /\ tickC = 0
    /\ op = [r \in Readers |-> "none"]
    /\ query = [r \in Readers |-> <<>>]
    /\ searchRes = [r \in Readers |-> NoSearchRes]
    /\ statsRes = [r \in Readers |-> NoStatsRes]
    /\ installed = documents
    /\ histScan = ZeroTime
    /\ scannedFs = NoTree
    /\ calledAfter = [r \in Readers |-> FALSE]
    /\ since = [r \in Readers |-> {}]
    /\ waitFor = [p \in Writers |-> NoProc]
    /\ callTime = [p \in Writers |-> 0]

Init ==
    /\ documents = EmptyDocs
    /\ lastScan = ZeroTime
    /\ muWriter = NoProc
    /\ muReaders = {}
    /\ pc = [p \in Procs |-> IF p = Loop THEN "off" ELSE "idle"]
    /\ walkPos = [p \in Writers |-> 0]
    /\ walkErr = [p \in Writers |-> NilErr]
    /\ fs \in FsStates
    /\ now = 1
    /\ tickerOn = FALSE
    /\ tickC = 0
    /\ op = [r \in Readers |-> "none"]
    /\ query = [r \in Readers |-> <<>>]
    /\ searchRes = [r \in Readers |-> NoSearchRes]
    /\ statsRes = [r \in Readers |-> NoStatsRes]
    /\ installed = EmptyDocs
    /\ histScan = ZeroTime
    /\ scannedFs = NoTree
    /\ calledAfter = [r \in Readers |-> FALSE]
    /\ since = [r \in Readers |-> {}]
    /\ waitFor = [p \in Writers |-> NoProc]
    /\ callTime = [p \in Writers |-> 0]

\* ------------------------------------------------------------ environment
\* The clock advances by one ticker interval; the ticker, once created,
\* puts a tick in its channel (a tick is dropped when one is still buffered).
Tick ==
    /\ now < MaxTime
    /\ now' = now + 1
    /\ tickC' = IF tickerOn THEN 1 ELSE tickC
    /\ UNCHANGED <<indexVars, muWriter, muReaders, pc, walkVars, fs, tickerOn,
                   readerVars, histVars, waitFor, callTime>>

\* Files appear, disappear or become inaccessible under the root. The tree is
\* taken to stand still while a walk is under way, so that every scan walks
\* one tree.
FsChange ==
    /\ \A p \in Writers : pc[p] # "walk"
    /\ fs' \in FsStates \ {fs}
    /\ UNCHANGED <<indexVars, muWriter, muReaders, pc, walkVars, now, tickerOn, tickC,
                   readerVars, histVars, waitFor, callTime>>

\* ---------------------------------------------------------------- writers
\* p is between its Lock and its Unlock: Scanning or Installing
InScan(p) == pc[p] \in {"clear", "walk", "walked", "unlock"}

\* history: the writer whose scan is in flight, NoProc when none is
InFlight ==
    IF \E w \in Writers : InScan(w) THEN CHOOSE w \in Writers : InScan(w) ELSE NoProc

\* a call of scanDocuments by p: the bookkeeping common to its callers
ScanCall(p) ==
    /\ waitFor' = [waitFor EXCEPT ![p] = InFlight]
    /\ callTime' = [callTime EXCEPT ![p] = now]
    /\ pc' = [pc EXCEPT ![p] = "lock"]
    /\ UNCHANGED <<indexVars, muWriter, muReaders, walkVars, envVars, readerVars, histVars>>

\* StartIndexing: the goroutine is started
StartIndexing ==
    /\ pc[Loop] = "off"
    /\ pc' = [pc EXCEPT ![Loop] = "start"]
    /\ UNCHANGED <<indexVars, muWriter, muReaders, walkVars, envVars, readerVars,
                   histVars, waitFor, callTime>>

\* the goroutine's initial scan
LoopInitialScan ==
    /\ pc[Loop] = "start"
    /\ ScanCall(Loop)

\* time.NewTicker after the initial scan has returned
LoopNewTicker ==
    /\ pc[Loop] = "newticker"
    /\ tickerOn' = TRUE
    /\ pc' = [pc EXCEPT ![Loop] = "wait"]
    /\ UNCHANGED <<indexVars, muWriter, muReaders, walkVars, fs, now, tickC, readerVars,
                   histVars, waitFor, callTime>>

\* for range ticker.C: a tick is received and the periodic scan is called
LoopTick ==
    /\ pc[Loop] = "wait"
    /\ tickC = 1
    /\ tickC' = 0
    /\ waitFor' = [waitFor EXCEPT ![Loop] = InFlight]
    /\ callTime' = [callTime EXCEPT ![Loop] = now]
    /\ pc' = [pc EXCEPT ![Loop] = "lock"]
    /\ UNCHANGED <<indexVars, muWriter, muReaders, walkVars, fs, now, tickerOn,
                   readerVars, histVars>>

\* ForceRefresh(rootPath) is called by p
ForceRefresh(p) ==
    /\ pc[p] = "idle"
    /\ ScanCall(p)

\* mutant of Lock: a writer does not wait for the writer before it
LockNoExclusion(p) ==
    /\ pc[p] = "lock"
    /\ muWriter' = p
    /\ pc' = [pc EXCEPT ![p] = "drain"]
    /\ UNCHANGED <<indexVars, muReaders, walkVars, envVars, readerVars, histVars,
                   waitFor, callTime>>

\* di.mu.Lock(), first half: the writer takes the writers' mutex and announces
\* itself, after which no new reader enters
Lock(p) ==
    /\ pc[p] = "lock"
    /\ muWriter = NoProc
    /\ muWriter' = p
    /\ pc' = [pc EXCEPT ![p] = "drain"]
    /\ UNCHANGED <<indexVars, muReaders, walkVars, envVars, readerVars, histVars,
                   waitFor, callTime>>

\* mutant of LockDrained: the writer does not wait for the active readers
LockDrainedNoWait(p) ==
    /\ pc[p] = "drain"
    /\ pc' = [pc EXCEPT ![p] = "clear"]
    /\ UNCHANGED <<indexVars, muWriter, muReaders, walkVars, envVars, readerVars,
                   histVars, waitFor, callTime>>

\* di.mu.Lock(), second half: the writer waits for the active readers to leave
LockDrained(p) ==
    /\ pc[p] = "drain"
    /\ muReaders = {}
    /\ pc' = [pc EXCEPT ![p] = "clear"]
    /\ UNCHANGED <<indexVars, muWriter, muReaders, walkVars, envVars, readerVars,
                   histVars, waitFor, callTime>>

\* mutant of ClearIndex: the lock is held for the reset only and released
\* before the walk
ClearIndexUnlocked(p) ==
    /\ pc[p] = "clear"
    /\ documents' = EmptyDocs
    /\ muWriter' = NoProc
    /\ walkPos' = [walkPos EXCEPT ![p] = 0]
    /\ walkErr' = [walkErr EXCEPT ![p] = NilErr]
    /\ pc' = [pc EXCEPT ![p] = "walk"]
    /\ UNCHANGED <<lastScan, muReaders, envVars, readerVars, histVars,
                   waitFor, callTime>>

\* mutant of ClearIndex: the walk appends to the map of the scan before
ClearIndexKeepsMap(p) ==
    /\ pc[p] = "clear"
    /\ documents' = documents
    /\ walkPos' = [walkPos EXCEPT ![p] = 0]
    /\ walkErr' = [walkErr EXCEPT ![p] = NilErr]
    /\ pc' = [pc EXCEPT ![p] = "walk"]
    /\ UNCHANGED <<lastScan, muWriter, muReaders, envVars, readerVars, histVars,
                   waitFor, callTime>>

\* di.documents = make(map[string][]DocumentInfo)
ClearIndex(p) ==
    /\ pc[p] = "clear"
    /\ documents' = EmptyDocs
    /\ walkPos' = [walkPos EXCEPT ![p] = 0]
    /\ walkErr' = [walkErr EXCEPT ![p] = NilErr]
    /\ pc' = [pc EXCEPT ![p] = "walk"]
    /\ UNCHANGED <<lastScan, muWriter, muReaders, envVars, readerVars, histVars,
                   waitFor, callTime>>

\* filepath.Walk at the root: an inaccessible root is handed to the callback,
\* whose return value ends the walk; an accessible one is a directory, which
\* the callback skips
WalkRoot(p) ==
    /\ pc[p] = "walk"
    /\ walkPos[p] = 0
    /\ IF fs.root = "err"
       THEN /\ walkErr' = [walkErr EXCEPT ![p] = WalkFnErr([name |-> <<>>, dir |-> TRUE], "err")]
            /\ pc' = [pc EXCEPT ![p] = "walked"]
            /\ UNCHANGED walkPos
       ELSE /\ walkPos' = [walkPos EXCEPT ![p] = NextVisited(fs, 1)]
            /\ pc' = [pc EXCEPT ![p] = IF NextVisited(fs, 1) > NEntries THEN "walked" ELSE "walk"]
            /\ UNCHANGED walkErr
    /\ scannedFs' = IF pc'[p] = "walked" THEN fs ELSE scannedFs
    /\ UNCHANGED <<indexVars, muWriter, muReaders, envVars, readerVars, installed, histScan,
                   waitFor, callTime>>

\* filepath.Walk at entry walkPos[p], an entry it visits: the callback runs,
\* and the walk goes on to the next entry it visits unless the callback
\* returned an error
WalkEntry(p) ==
    /\ pc[p] = "walk"
    /\ walkPos[p] \in EntryIds
    /\ LET i == walkPos[p]
           err == WalkFnErr(Entries[i], fs.st[i])
           next == NextVisited(fs, i + 1)
       IN /\ documents' = WalkFnDocs(documents, Entries[i], fs.st[i])
          /\ walkErr' = [walkErr EXCEPT ![p] = err]
          /\ walkPos' = [walkPos EXCEPT ![p] = next]
          /\ pc' = [pc EXCEPT ![p] = IF err # NilErr \/ next > NEntries THEN "walked" ELSE "walk"]
    /\ scannedFs' = IF pc'[p] = "walked" THEN fs ELSE scannedFs
    /\ UNCHANGED <<lastScan, muWriter, muReaders, envVars, readerVars, installed, histScan,
                   waitFor, callTime>>

\* mutant of ScanFinish: the scan ends without stamping di.lastScan
ScanFinishNoStamp(p) ==
    /\ pc[p] = "walked"
    /\ lastScan' = lastScan
    /\ pc' = [pc EXCEPT ![p] = "unlock"]
    /\ UNCHANGED <<documents, muWriter, muReaders, walkVars, envVars, readerVars,
                   histVars, waitFor, callTime>>

\* if err != nil { return }; di.lastScan = time.Now()
ScanFinish(p) ==
    /\ pc[p] = "walked"
    /\ lastScan' = IF walkErr[p] # NilErr THEN lastScan ELSE now
    /\ pc' = [pc EXCEPT ![p] = "unlock"]
    /\ UNCHANGED <<documents, muWriter, muReaders, walkVars, envVars, readerVars,
                   histVars, waitFor, callTime>>

\* mutant of Unlock: scanDocuments returns without releasing the write lock
UnlockLost(p) ==
    /\ pc[p] = "unlock"
    /\ muWriter' = muWriter
    /\ installed' = documents
    /\ histScan' = lastScan
    /\ since' = [r \in Readers |-> IF since[r] # {} THEN since[r] \cup {documents} ELSE {}]
    /\ pc' = [pc EXCEPT ![p] = IF p # Loop THEN "idle"
                                 ELSE IF tickerOn THEN "wait" ELSE "newticker"]
    /\ walkPos' = [walkPos EXCEPT ![p] = 0]
    /\ walkErr' = [walkErr EXCEPT ![p] = NilErr]
    /\ waitFor' = [w \in Writers |-> IF w = p THEN NoProc
                                      ELSE IF waitFor[w] = p THEN Completed
                                      ELSE waitFor[w]]
    /\ callTime' = [callTime EXCEPT ![p] = 0]
    /\ UNCHANGED <<indexVars, muReaders, envVars, op, query, searchRes, statsRes,
                   calledAfter, scannedFs>>

\* the deferred di.mu.Unlock(), and the return to the caller
Unlock(p) ==
    /\ pc[p] = "unlock"
    /\ muWriter' = NoProc
    /\ installed' = documents
    /\ histScan' = lastScan
    /\ since' = [r \in Readers |-> IF since[r] # {} THEN since[r] \cup {documents} ELSE {}]
    /\ pc' = [pc EXCEPT ![p] = IF p # Loop THEN "idle"
                                 ELSE IF tickerOn THEN "wait" ELSE "newticker"]
    /\ walkPos' = [walkPos EXCEPT ![p] = 0]
    /\ walkErr' = [walkErr EXCEPT ![p] = NilErr]
    /\ waitFor' = [w \in Writers |-> IF w = p THEN NoProc
                                      ELSE IF waitFor[w] = p THEN Completed
                                      ELSE waitFor[w]]
    /\ callTime' = [callTime EXCEPT ![p] = 0]
    /\ UNCHANGED <<indexVars, muReaders, envVars, op, query, searchRes, statsRes,
                   calledAfter, scannedFs>>

\* ---------------------------------------------------------------- readers
\* SearchDocuments(q) is called by r
SearchCall(r, q) ==
    /\ pc[r] = "idle"
    /\ op' = [op EXCEPT ![r] = "search"]
    /\ query' = [query EXCEPT ![r] = q]
    /\ calledAfter' = [calledAfter EXCEPT ![r] = histScan # ZeroTime]
    /\ since' = [since EXCEPT ![r] = {installed}]
    /\ pc' = [pc EXCEPT ![r] = "rlock"]
    /\ UNCHANGED <<indexVars, muWriter, muReaders, walkVars, envVars, searchRes, statsRes,
                   histVars, waitFor, callTime>>

\* GetIndexStats() is called by r
StatsCall(r) ==
    /\ pc[r] = "idle"
    /\ op' = [op EXCEPT ![r] = "stats"]
    /\ pc' = [pc EXCEPT ![r] = "rlock"]
    /\ UNCHANGED <<indexVars, muWriter, muReaders, walkVars, envVars, query, searchRes,
                   statsRes, calledAfter, since, histVars, waitFor, callTime>>

\* mutant of RLock: a reader enters although a writer holds the lock
RLockNoWriterCheck(r) ==
    /\ pc[r] = "rlock"
    /\ muReaders' = muReaders \cup {r}
    /\ pc' = [pc EXCEPT ![r] = "read"]
    /\ UNCHANGED <<indexVars, muWriter, walkVars, envVars, readerVars, histVars,
                   waitFor, callTime>>

\* di.mu.RLock(): blocked while a writer holds or waits for the lock
RLock(r) ==
    /\ pc[r] = "rlock"
    /\ muWriter = NoProc
    /\ muReaders' = muReaders \cup {r}
    /\ pc' = [pc EXCEPT ![r] = "read"]
    /\ UNCHANGED <<indexVars, muWriter, walkVars, envVars, readerVars, histVars,
                   waitFor, callTime>>

\* mutant of SearchBody: looking the query up inserts it as an identifier
\* with an empty group
SearchBodyInsertsKey(r) ==
    /\ pc[r] = "read"
    /\ op[r] = "search"
    /\ \E res \in SearchDocumentsResults(documents, query[r], now) :
          searchRes' = [searchRes EXCEPT ![r] = res]
    /\ documents' = [k \in DOMAIN documents \cup {TrimSpace(query[r])} |->
                        IF k \in DOMAIN documents THEN documents[k] ELSE <<>>]
    /\ pc' = [pc EXCEPT ![r] = "ret"]
    /\ UNCHANGED <<lastScan, muWriter, muReaders, walkVars, envVars, op, query, statsRes,
                   calledAfter, since, histVars, waitFor, callTime>>

\* the body of SearchDocuments, up to the construction of its result
SearchBody(r) ==
    /\ pc[r] = "read"
    /\ op[r] = "search"
    /\ \E res \in SearchDocumentsResults(documents, query[r], now) :
          searchRes' = [searchRes EXCEPT ![r] = res]
    /\ pc' = [pc EXCEPT ![r] = "ret"]
    /\ UNCHANGED <<indexVars, muWriter, muReaders, walkVars, envVars, op, query, statsRes,
                   calledAfter, since, histVars, waitFor, callTime>>

\* the body of GetIndexStats, up to the construction of its result
StatsBody(r) ==
    /\ pc[r] = "read"
    /\ op[r] = "stats"
    /\ statsRes' = [statsRes EXCEPT ![r] = GetIndexStatsResult(documents, lastScan, now)]
    /\ pc' = [pc EXCEPT ![r] = "ret"]
    /\ UNCHANGED <<indexVars, muWriter, muReaders, walkVars, envVars, op, query, searchRes,
                   calledAfter, since, histVars, waitFor, callTime>>

\* the deferred di.mu.RUnlock(), and the return to the caller
RUnlock(r) ==
    /\ pc[r] = "ret"
    /\ muReaders' = muReaders \ {r}
    /\ pc' = [pc EXCEPT ![r] = "idle"]
    /\ op' = [op EXCEPT ![r] = "none"]
    /\ query' = [query EXCEPT ![r] = <<>>]
    /\ searchRes' = [searchRes EXCEPT ![r] = NoSearchRes]
    /\ statsRes' = [statsRes EXCEPT ![r] = NoStatsRes]
    /\ calledAfter' = [calledAfter EXCEPT ![r] = FALSE]
    /\ since' = [since EXCEPT ![r] = {}]
    /\ UNCHANGED <<indexVars, muWriter, walkVars, envVars, histVars, waitFor, callTime>>

\* ---------------------------------------------------------- specification
Next ==
    \/ Tick
    \/ FsChange
    \/ StartIndexing
    \/ LoopInitialScan
    \/ LoopNewTicker
    \/ LoopTick
    \/ \E p \in Forcers : ForceRefresh(p)
    \/ \E p \in Writers : Lock(p)
    \/ \E p \in Writers : LockDrained(p)
    \/ \E p \in Writers : ClearIndex(p)
    \/ \E p \in Writers : WalkRoot(p)
    \/ \E p \in Writers : WalkEntry(p)
    \/ \E p \in Writers : ScanFinish(p)
    \/ \E p \in Writers : Unlock(p)
    \/ \E r \in Searchers, q \in ConcQueries : SearchCall(r, q)
    \/ \E r \in StatsCallers : StatsCall(r)
    \/ \E r \in Readers : RLock(r)
    \/ \E r \in Readers : SearchBody(r)
    \/ \E r \in Readers : StatsBody(r)
    \/ \E r \in Readers : RUnlock(r)

Spec == Init /\ [][Next]_vars

\* The scheduling the liveness of the calls rests on: the lock is fair (a
\* caller that can take it again and again does take it), and a goroutine
\* that is not blocked goes on: the walk ends, the deferred unlocks run.
Fairness ==
    /\ \A p \in Writers :
          /\ SF_vars(Lock(p))
          /\ WF_vars(LockDrained(p) \/ ClearIndex(p) \/ WalkRoot(p) \/ WalkEntry(p)
                        \/ ScanFinish(p) \/ Unlock(p))
    /\ \A r \in Readers :
          /\ SF_vars(RLock(r))
          /\ WF_vars(SearchBody(r) \/ StatsBody(r) \/ RUnlock(r))

\* The calls on a tree that stands still: every step of Next but FsChange
NextStill ==
    \/ Tick
    \/ StartIndexing
    \/ LoopInitialScan
    \/ LoopNewTicker
    \/ LoopTick
    \/ \E p \in Forcers : ForceRefresh(p)
    \/ \E p \in Writers : Lock(p)
    \/ \E p \in Writers : LockDrained(p)
    \/ \E p \in Writers : ClearIndex(p)
    \/ \E p \in Writers : WalkRoot(p)
    \/ \E p \in Writers : WalkEntry(p)
    \/ \E p \in Writers : ScanFinish(p)
    \/ \E p \in Writers : Unlock(p)
    \/ \E r \in Searchers, q \in ConcQueries : SearchCall(r, q)
    \/ \E r \in StatsCallers : StatsCall(r)
    \/ \E r \in Readers : RLock(r)
    \/ \E r \in Readers : SearchBody(r)
    \/ \E r \in Readers : StatsBody(r)
    \/ \E r \in Readers : RUnlock(r)

\* the tree that stands still: files, directories and entries that fail
StillTree == ErrTree

InitStill == Init /\ fs = StillTree

\* The calls under a fair lock, with goroutines that keep running
SpecFair == InitStill /\ [][NextStill]_vars /\ Fairness

\* The search function alone: one caller, every query up to MaxLen, on the
\* map a scan of some tree has left.
SearchTrees == FsStates \cup {EmptyTree, SmallTree, FullTree}

InitSearch ==
    /\ fs \in SearchTrees
    /\ documents = ScanOf(fs)
    /\ lastScan = 1
    /\ muWriter = NoProc
    /\ muReaders = {}
    /\ pc = [p \in Procs |-> IF p = Loop THEN "off" ELSE "idle"]
    /\ walkPos = [p \in Writers |-> 0]
    /\ walkErr = [p \in Writers |-> NilErr]
    /\ now = 1
    /\ tickerOn = FALSE
    /\ tickC = 0
    /\ op = [r \in Readers |-> "none"]
    /\ query = [r \in Readers |-> <<>>]
    /\ searchRes = [r \in Readers |-> NoSearchRes]
    /\ statsRes = [r \in Readers |-> NoStatsRes]
    /\ installed = documents
    /\ histScan = lastScan
    /\ scannedFs = fs
    /\ calledAfter = [r \in Readers |-> FALSE]
    /\ since = [r \in Readers |-> {}]
    /\ waitFor = [p \in Writers |-> NoProc]
    /\ callTime = [p \in Writers |-> 0]

NextSearch ==
    \/ \E r \in Searchers, q \in Queries : SearchCall(r, q)
    \/ \E r \in Searchers : RLock(r)
    \/ \E r \in Searchers : SearchBody(r)
    \/ \E r \in Searchers : RUnlock(r)

SpecSearch == InitSearch /\ [][NextSearch]_vars

\* ------------------------------------------------------------------ claims
\* the result lists SearchDocuments(raw) may return on the map docs
ResultsOn(docs, raw) == {x.Results : x \in SearchDocumentsResults(docs, raw, 0)}

\* a search is about to return its result
Returning(r) == pc[r] = "ret" /\ op[r] = "search"

\* the query holds white space only (or nothing)
Blank(q) == \A i \in DOMAIN q : IsSpace(q[i])

\* C1: every search result is the set of prefix matches of one complete
\* snapshot, the map the last completed scan (or the constructor) has left;
\* never of a map a scan is still building.
C1_SearchSeesCompleteSnapshot ==
    \A r \in Searchers :
        Returning(r) => searchRes[r].Results \in ResultsOn(installed, query[r])

\* C1 witness: a search called before a refresh completed returns records of
\* one snapshot that was in place during its call, which another snapshot in
\* place during that call would not have given.
C1_Witness ==
    \E r \in Searchers :
        /\ Returning(r)
        /\ searchRes[r].Results # <<>>
        /\ \E m \in since[r] : searchRes[r].Results \notin ResultsOn(m, query[r])

\* C2: at most one scan is between its Lock and its Unlock, so no two walks
\* overlap, whoever called them.
C2_OneWalkAtATime ==
    Cardinality({p \in Writers : InScan(p)}) <= 1

\* C2 witness: one writer walks while the other has called scanDocuments and
\* waits, a tick having arrived during the scan.
C2_Witness ==
    \E p, w \in Writers :
        /\ p # w
        /\ pc[p] = "walk"
        /\ pc[w] = "lock"
        /\ now > callTime[p]

\* C3 (the claim as stated): a scan whose walk failed at the root leaves the
\* map as the last completed scan left it.
C3_RootFailureKeepsSnapshot ==
    \A p \in Writers :
        (pc[p] = "unlock" /\ walkPos[p] = 0) => documents = installed

\* C4: a search gets the matches of a snapshot that was in place when it was
\* called, the one the last returned refresh installed, or of one installed
\* later; never of an earlier one.
C4_ReadAfterWrite ==
    \A r \in Searchers :
        Returning(r) =>
            \E m \in since[r] : searchRes[r].Results \in ResultsOn(m, query[r])

\* C4 witness: a search called after a refresh returned, with no refresh
\* completing during the call, gets the records of that refresh.
C4_Witness ==
    \E r \in Searchers :
        /\ Returning(r)
        /\ calledAfter[r]
        /\ since[r] = {installed}
        /\ searchRes[r].Results # <<>>

\* C5 (the claim as stated): while a scan is walking, a reader that has called
\* SearchDocuments or GetIndexStats can enter its read section.
C5_WalkDoesNotBlockReaders ==
    \A r \in Readers :
        (pc[r] = "rlock" /\ \E p \in Writers : pc[p] = "walk") => ENABLED RLock(r)

\* C6 (the claim as stated): a refresh called while another was in its scan
\* never scans itself.
C6_LateRefreshNeverScans ==
    \A p \in Writers : waitFor[p] # NoProc => ~InScan(p)

\* C6 (amended): a refresh called while another was in its scan starts its own
\* scan only after that one has completed, and no other scan runs beside it.
C6_LateRefreshScansAfterwards ==
    \A p \in Writers :
        (waitFor[p] # NoProc /\ InScan(p)) =>
            /\ waitFor[p] = Completed
            /\ \A w \in Writers \ {p} : ~InScan(w)

\* C6 witness: a refresh called during another's scan is walking itself.
C6_Witness ==
    \E p \in Writers : waitFor[p] = Completed /\ pc[p] = "walk"

\* C7 (the claim as stated): every record of the result of a non-empty query
\* has an identifier that starts with the query as passed.
C7_SoundForRawQuery ==
    \A r \in Searchers :
        (Returning(r) /\ query[r] # <<>>) =>
            \A i \in DOMAIN searchRes[r].Results :
                HasPrefix(searchRes[r].Results[i].ID, query[r])

\* C7 (amended): every record of the result of a query that is not blank has
\* an identifier that starts, case-sensitively, with the trimmed query.
C7_SoundForTrimmedQuery ==
    \A r \in Searchers :
        (Returning(r) /\ ~Blank(query[r])) =>
            \A i \in DOMAIN searchRes[r].Results :
                HasPrefix(searchRes[r].Results[i].ID, TrimSpace(query[r]))

\* C7 witness: a query with surrounding white space returns records.
C7_Witness ==
    \E r \in Searchers :
        /\ Returning(r)
        /\ TrimSpace(query[r]) # query[r]
        /\ searchRes[r].Results # <<>>

\* the number of places of the result list res that hold the record d
Occurrences(res, d) == Cardinality({i \in DOMAIN res : res[i] = d})

\* every record of the groups of docs whose identifier starts with q is in
\* res exactly once
AllMatchesOnce(docs, q, res) ==
    \A k \in DOMAIN docs :
        HasPrefix(k, q) => \A j \in DOMAIN docs[k] : Occurrences(res, docs[k][j]) = 1

\* C8 (the claim as stated, for the non-empty queries that are not blank
\* either): every record whose identifier starts with the query as passed is
\* in the result exactly once.
C8_CompleteForRawQuery ==
    \A r \in Searchers :
        (Returning(r) /\ ~Blank(query[r])) =>
            AllMatchesOnce(documents, query[r], searchRes[r].Results)

\* C8 (amended): for a query that is not blank, every record whose identifier
\* starts with the trimmed query is in the result exactly once.
C8_CompleteForTrimmedQuery ==
    \A r \in Searchers :
        (Returning(r) /\ ~Blank(query[r])) =>
            AllMatchesOnce(documents, TrimSpace(query[r]), searchRes[r].Results)

\* C8 witness: a query with surrounding white space returns a whole group of
\* two records and a record of another group.
C8_Witness ==
    \E r \in Searchers :
        /\ Returning(r)
        /\ TrimSpace(query[r]) # query[r]
        /\ \E k \in DOMAIN documents :
              /\ Len(documents[k]) = 2
              /\ HasPrefix(k, TrimSpace(query[r]))
        /\ Len(searchRes[r].Results) > 2

\* C9: an empty or blank query returns no record and count 0, whatever the
\* snapshot holds.
C9_BlankQueryReturnsNothing ==
    \A r \in Searchers :
        (Returning(r) /\ Blank(query[r])) =>
            /\ searchRes[r].Results = <<>>
            /\ searchRes[r].Count = 0

\* C9 witness: a blank, non-empty query on a snapshot that holds an
\* identifier starting with that query.
C9_Witness ==
    \E r \in Searchers :
        /\ Returning(r)
        /\ Blank(query[r])
        /\ query[r] # <<>>
        /\ \E k \in DOMAIN documents : HasPrefix(k, query[r])

\* the records of the map docs, each with its identifier and place
RecordsOf(docs) == UNION {{<<k, j>> : j \in DOMAIN docs[k]} : k \in DOMAIN docs}

\* C10: what GetIndexStats returns are the number of identifiers, the number
\* of records and the last-scan time of the state the last completed scan
\* (or the constructor) left, never those of a map being built.
C10_StatsOfCompleteSnapshot ==
    \A r \in StatsCallers :
        (pc[r] = "ret" /\ op[r] = "stats") =>
            /\ statsRes[r].unique_ids = Cardinality(DOMAIN installed)
            /\ statsRes[r].total_files = Cardinality(RecordsOf(installed))
            /\ statsRes[r].last_scan = histScan

\* C10 witness: stats of a snapshot with more records than identifiers are
\* returned while a refresh waits for the lock.
C10_Witness ==
    \E r \in StatsCallers :
        /\ pc[r] = "ret"
        /\ op[r] = "stats"
        /\ statsRes[r].total_files > statsRes[r].unique_ids
        /\ \E p \in Writers : pc[p] = "drain"

\* ---------------------------------------------------------------- C11
\* C11: when a refresh returns, di.lastScan is not before the clock value its
\* caller read just before the call; di.lastScan never goes back afterwards,
\* and GetIndexStats reports a last_scan that is not before the di.lastScan
\* the last returned refresh left.
C11_LastScanNotBeforeCall ==
    [][ /\ lastScan' >= lastScan
        /\ \A p \in Writers :
              (pc[p] = "unlock" /\ pc'[p] # "unlock") => lastScan' >= callTime[p]
        /\ \A r \in StatsCallers :
              (pc[r] = "read" /\ pc'[r] = "ret") => statsRes'[r].last_scan >= histScan
      ]_vars

\* C11 witness: a refresh called at a clock value later than the previous
\* lastScan is about to return, the clock having advanced during its scan,
\* while GetIndexStats is waiting for the lock.
C11_Witness ==
    \E p \in Forcers :
        /\ pc[p] = "unlock"
        /\ histScan # ZeroTime
        /\ callTime[p] > histScan
        /\ lastScan >= callTime[p]
        /\ \E r \in StatsCallers : pc[r] = "rlock"

\* ---------------------------------------------------------------- C12
\* the elements of the sequence s
Range(s) == {s[j] : j \in DOMAIN s}

\* the maps d1 and d2 hold the same identifiers and, per identifier, the same
\* records up to order
SameRecordSets(d1, d2) ==
    /\ DOMAIN d1 = DOMAIN d2
    /\ \A k \in DOMAIN d1 :
          /\ Len(d1[k]) = Len(d2[k])
          /\ Range(d1[k]) = Range(d2[k])

\* C12: a scan that ends its walk on the tree the scan before it walked has
\* built a map with the same identifiers and the same records per identifier
\* as the snapshot that earlier scan installed.
C12_RefreshIdempotent ==
    [][ \A p \in Writers :
            (pc[p] = "walk" /\ pc'[p] = "walked" /\ scannedFs = fs) =>
                SameRecordSets(documents', installed)
      ]_vars

\* C12 witness: the second of two refreshes of a tree with files has ended
\* its walk; its map, built from an empty one, equals the installed snapshot,
\* which holds a group of two records.
C12_Witness ==
    \E p \in Writers :
        /\ pc[p] = "walked"
        /\ histScan # ZeroTime
        /\ scannedFs = fs
        /\ documents # EmptyDocs
        /\ SameRecordSets(documents, installed)
        /\ \E k \in DOMAIN documents : Len(documents[k]) = 2

\* ---------------------------------------------------------------- C13
\* the entry i of tree can be reached and read by the walk
Accessible(tree, i) == Visited(tree, i) /\ tree.st[i] = "ok"

\* the walk of tree meets an error at the entry i below the root
FailsAt(tree, i) == Visited(tree, i) /\ tree.st[i] = "err"

\* docs holds a record for the entry i, under its name
HasRecordOf(docs, i) ==
    /\ Entries[i].name \in DOMAIN docs
    /\ \E j \in DOMAIN docs[Entries[i].name] :
          /\ docs[Entries[i].name][j].Path = Entries[i].path
          /\ docs[Entries[i].name][j].ID = Entries[i].name

\* docs holds a record for every accessible non-directory entry of tree and
\* none for an entry at which the walk met an error
SkipsOnlyFailed(docs, tree) ==
    \A i \in EntryIds :
        /\ (Accessible(tree, i) /\ ~Entries[i].dir) => HasRecordOf(docs, i)
        /\ FailsAt(tree, i) => ~HasRecordOf(docs, i)

\* C13: an error at an entry below the root does not end the walk: the map a
\* scan has built when its walk is over, and the snapshot it installs, hold a
\* record for every accessible non-directory entry of the walked tree and none
\* for the entries that failed.
C13_EntryErrorSkipped ==
    /\ \A p \in Writers :
          pc[p] \in {"walked", "unlock"} => SkipsOnlyFailed(documents, scannedFs)
    /\ ((\A p \in Writers : ~InScan(p)) /\ scannedFs # NoTree) =>
          SkipsOnlyFailed(installed, scannedFs)

\* C13 witness: a snapshot is installed whose walk met an error at a file and
\* recorded a file that comes after it in the walk.
C13_Witness ==
    /\ \A p \in Writers : ~InScan(p)
    /\ scannedFs # NoTree
    /\ \E i, j \in EntryIds :
          /\ i < j
          /\ FailsAt(scannedFs, i)
          /\ ~Entries[i].dir
          /\ Accessible(scannedFs, j)
          /\ ~Entries[j].dir
          /\ HasRecordOf(installed, j)

\* ---------------------------------------------------------------- C14
\* the walk of tree meets no error
ErrorFree(tree) ==
    /\ tree.root = "ok"
    /\ \A i \in EntryIds : tree.st[i] # "err"

\* the non-directory entries under the root of tree
FilesOf(tree) == {i \in EntryIds : Visited(tree, i) /\ ~Entries[i].dir}

\* docs holds exactly one record per file of tree, under the file's unmodified
\* base name, and nothing else; the records of one group differ in their
\* relative paths
OneRecordPerFile(docs, tree) ==
    /\ DOMAIN docs = {Entries[i].name : i \in FilesOf(tree)}
    /\ \A k \in DOMAIN docs :
          /\ Len(docs[k]) = Cardinality({i \in FilesOf(tree) : Entries[i].name = k})
          /\ \A j \in DOMAIN docs[k] :
                /\ docs[k][j].ID = k
                /\ \E i \in FilesOf(tree) :
                      /\ Entries[i].name = k
                      /\ Entries[i].path = docs[k][j].Path
          /\ \A j1, j2 \in DOMAIN docs[k] :
                j1 # j2 => docs[k][j1].Path # docs[k][j2].Path

\* C14: after a walk without errors the map holds exactly one record per
\* non-directory entry and none for a directory, each under its unmodified
\* base name; files of the same name in different directories are separate
\* records of one group with distinct relative paths, and a search of the
\* installed snapshot counts every file whose name starts with the query.
C14_OneRecordPerFile ==
    /\ \A p \in Writers :
          (pc[p] \in {"walked", "unlock"} /\ ErrorFree(scannedFs)) =>
              OneRecordPerFile(documents, scannedFs)
    /\ \A r \in Searchers :
          (Returning(r) /\ ErrorFree(scannedFs) /\ \A p \in Writers : ~InScan(p)) =>
              searchRes[r].Count =
                  Cardinality({i \in FilesOf(scannedFs) :
                                   HasPrefix(Entries[i].name, TrimSpace(query[r]))})

\* C14 witness: a walk without errors of a tree with two directories that
\* each hold a file of the same name has left one group of two records.
C14_Witness ==
    \E p \in Writers :
        /\ pc[p] = "unlock"
        /\ ErrorFree(scannedFs)
        /\ \E i1, i2 \in FilesOf(scannedFs) :
              /\ i1 # i2
              /\ Entries[i1].name = Entries[i2].name
              /\ Entries[i1].parent # Entries[i2].parent
        /\ \E i \in EntryIds : Visited(scannedFs, i) /\ Entries[i].dir
        /\ \E k \in DOMAIN documents : Len(documents[k]) = 2

\* ---------------------------------------------------------------- C15
\* C15 (the claim as stated): a scan whose root is missing or cannot be read
\* ends with di.lastScan at the value the last completed scan left.
C15_FailedScanKeepsLastScan ==
    \A p \in Writers :
        (pc[p] = "unlock" /\ scannedFs.root = "err") => lastScan = histScan

\* ---------------------------------------------------------------- C16
\* C16: as long as no scan has returned since NewDocumentIndex, every
\* SearchDocuments result has count 0 and no record, and every GetIndexStats
\* result reports 0 identifiers and 0 records, also after StartIndexing.
C16_EmptyUntilFirstScan ==
    histScan = ZeroTime =>
        /\ \A r \in Searchers :
              Returning(r) => (searchRes[r].Count = 0 /\ searchRes[r].Results = <<>>)
        /\ \A r \in StatsCallers :
              (pc[r] = "ret" /\ op[r] = "stats") =>
                  (statsRes[r].unique_ids = 0 /\ statsRes[r].total_files = 0)

\* C16 witness: StartIndexing has been called and its initial scan has not
\* taken the lock yet; a search whose query matches files of the tree and a
\* GetIndexStats call return.
C16_Witness ==
    /\ histScan = ZeroTime
    /\ pc[Loop] \in {"start", "lock"}
    /\ \E i \in EntryIds :
          /\ Accessible(fs, i)
          /\ ~Entries[i].dir
          /\ \E r \in Searchers :
                Returning(r) /\ HasPrefix(Entries[i].name, TrimSpace(query[r]))
    /\ \E r \in StatsCallers : pc[r] = "ret" /\ op[r] = "stats"

\* ---------------------------------------------------------------- C17
\* C17: whenever no refresh is inside its write-locked section, every
\* identifier of the map has a non-empty group whose records all carry that
\* identifier as ID and as Name; and every GetIndexStats result reports no
\* more identifiers than records.
C17_GroupsWellFormed ==
    /\ (\A p \in Writers : ~InScan(p)) =>
          \A k \in DOMAIN documents :
              /\ Len(documents[k]) > 0
              /\ \A j \in DOMAIN documents[k] :
                    documents[k][j].ID = k /\ documents[k][j].Name = k
    /\ \A r \in StatsCallers :
          (pc[r] = "ret" /\ op[r] = "stats") =>
              statsRes[r].unique_ids <= statsRes[r].total_files

\* C17 witness: no refresh is inside, the map holds a group of two records
\* from different directories, and GetIndexStats has reported fewer
\* identifiers than records.
C17_Witness ==
    /\ \A p \in Writers : ~InScan(p)
    /\ \E k \in DOMAIN documents :
          /\ Len(documents[k]) = 2
          /\ documents[k][1].Path # documents[k][2].Path
    /\ \E r \in StatsCallers :
          /\ pc[r] = "ret"
          /\ op[r] = "stats"
          /\ 0 < statsRes[r].unique_ids
          /\ statsRes[r].unique_ids < statsRes[r].total_files

\* ---------------------------------------------------------------- C18
\* C18: no step of SearchDocuments or GetIndexStats changes di.documents or
\* di.lastScan, and every step that changes one of them is a step of a
\* scanDocuments call that holds the write lock.
C18_ReadersChangeNothing ==
    [][ /\ (\E r \in Readers : pc'[r] # pc[r]) => UNCHANGED indexVars
        /\ indexVars' # indexVars =>
              \E p \in Writers :
                  /\ InScan(p)
                  /\ muWriter = p
                  /\ pc'[p] # pc[p] \/ walkPos'[p] # walkPos[p]
      ]_vars

\* C18 witness: a search with matches and a GetIndexStats call have both
\* computed their results on a snapshot with records, and the map and
\* lastScan are still as the last refresh left them.
C18_Witness ==
    /\ \E r \in Searchers : Returning(r) /\ searchRes[r].Count > 0
    /\ \E r \in StatsCallers :
          pc[r] = "ret" /\ op[r] = "stats" /\ statsRes[r].total_files > 0
    /\ documents = installed
    /\ lastScan = histScan
    /\ histScan # ZeroTime

\* ---------------------------------------------------------------- C20
\* t is raw without its leading and trailing white space
IsTrimOf(t, raw) ==
    /\ t # <<>> => (~IsSpace(t[1]) /\ ~IsSpace(t[Len(t)]))
    /\ \E a \in 0..Len(raw) :
          /\ a + Len(t) <= Len(raw)
          /\ SubSeq(raw, a + 1, a + Len(t)) = t
          /\ \A j \in 1..Len(raw) : (j <= a \/ j > a + Len(t)) => IsSpace(raw[j])

\* C20: in every SearchResult, Count is the number of records in Results and
\* Query is the query without its surrounding white space, the empty string
\* for a blank query.
C20_CountAndQueryFields ==
    \A r \in Searchers :
        Returning(r) =>
            /\ searchRes[r].Count = Len(searchRes[r].Results)
            /\ IsTrimOf(searchRes[r].Query, query[r])
            /\ (\A j \in DOMAIN query[r] : IsSpace(query[r][j])) => searchRes[r].Query = <<>>

\* C20 witness: a query with white space after a letter returns records,
\* with the letter alone as Query.
C20_Witness ==
    \E r \in Searchers :
        /\ Returning(r)
        /\ Len(query[r]) = 2
        /\ ~IsSpace(query[r][1])
        /\ IsSpace(query[r][2])
        /\ Len(searchRes[r].Query) = 1
        /\ searchRes[r].Count >= 2

\* ---------------------------------------------------------------- C19
\* C19: with a fair lock and walks that end, every SearchDocuments and
\* GetIndexStats call that waits for the read lock returns, and every
\* scanDocuments call that waits for the write lock, from ForceRefresh or
\* from the loop, gets the lock, releases it and returns.
C19_EveryCallReturns ==
    /\ \A r \in Readers : (pc[r] = "rlock") ~> (pc[r] = "idle")
    /\ \A p \in Writers :
          (pc[p] = "lock") ~> (pc[p] \in {"idle", "wait", "newticker"} /\ muWriter # p)

\* C19 witness: a refresh that had to wait for the refresh before it is
\* walking under the write lock, the other writer is back from its call and
\* both readers wait for the read lock.
C19_Witness ==
    \E p, w \in Writers :
        /\ p # w
        /\ pc[p] = "walk"
        /\ muWriter = p
        /\ waitFor[p] = Completed
        /\ pc[w] \in {"idle", "wait", "newticker"}
        /\ \A r \in Readers : pc[r] = "rlock"

====
